---- MODULE Spec2Model ----
(***************************************************************************)
(* Usada-VC: the /conversion command of the Discord bot.  One job per     *)
(* interaction: acknowledge, create a workspace, validate, download,      *)
(* probe, run the external conversion, reply, remove the workspace.       *)
(* Every await of the handler is one step of the job; the code between    *)
(* two awaits runs to completion on the event loop and is one action.     *)
(***************************************************************************)
EXTENDS Integers, Sequences, FiniteSets, TLC

\* ------------------------------------------------------------------ bounds
NumJobs == 2
MaxCalls == 2

\* ------------------------------------------------------- program constants
VALID_AUDIO_EXTENSIONS == << <<".", "w", "a", "v">> >>
MAX_AUDIO_DURATION == 30
DEFAULT_SINGING_DIFFUSION_STEPS == 60
DEFAULT_NON_SINGING_DIFFUSION_STEPS == 25
MinSteps == 1
MaxSteps == 100

\* An absent option (getInteger returns null) is the empty tuple, a present
\* integer n is <<n>>.
Null == <<>>

\* ------------------------------------------------------------ string model
\* Strings the code inspects are tuples of one-character strings.
UpperChars ==
  <<"A","B","C","D","E","F","G","H","I","J","K","L","M",
    "N","O","P","Q","R","S","T","U","V","W","X","Y","Z">>
LowerChars ==
  <<"a","b","c","d","e","f","g","h","i","j","k","l","m",
    "n","o","p","q","r","s","t","u","v","w","x","y","z">>

ToLowerChar(c) ==
  IF \E i \in DOMAIN UpperChars : UpperChars[i] = c
    THEN LowerChars[CHOOSE i \in DOMAIN UpperChars : UpperChars[i] = c]
    ELSE c

ToLowerCase(s) == [i \in DOMAIN s |-> ToLowerChar(s[i])]

EndsWith(s, suffix) ==
  /\ Len(s) >= Len(suffix)
  /\ SubSeq(s, Len(s) - Len(suffix) + 1, Len(s)) = suffix

StartsWith(s, prefix) ==
  /\ Len(s) >= Len(prefix)
  /\ SubSeq(s, 1, Len(prefix)) = prefix

DigitChars == <<"0","1","2","3","4","5","6","7","8","9">>

RECURSIVE ToStr(_)
ToStr(n) ==
  IF n < 10 THEN <<DigitChars[n + 1]>>
  ELSE ToStr(n \div 10) \o <<DigitChars[(n % 10) + 1]>>

\* uuidv4(): 122 random bits, taken never to repeat: the n-th identifier.
Uuid(n) == <<"u">> \o ToStr(n)

\* ------------------------------------------------------------------ inputs
Jobs == 1..NumJobs
SoloJobs == {1}

Commands == {"conversion"}
CommandNames == {"conversion", "ping"}

AttachmentNames ==
  { <<"a",".","w","a","v">>,
    <<"B",".","W","A","V">>,
    <<"c",".","m","p","3">>,
    <<"w","a","v">> }

StepChoices == {Null, <<MinSteps>>, <<42>>, <<MaxSteps>>}
ShiftChoices == {Null, <<0>>, <<3>>, <<-2>>}

Options ==
  [source : AttachmentNames, target : AttachmentNames, singing : BOOLEAN,
   diffusion_steps : StepChoices, semi_tone_shift : ShiftChoices]

NoOptions ==
  [source |-> <<>>, target |-> <<>>, singing |-> FALSE,
   diffusion_steps |-> Null, semi_tone_shift |-> Null]

\* parseFloat(stdout) of ffprobe: a number of seconds, or NaN.
Durations == {30, 31}
ProbeResults ==
  {[kind |-> "error", val |-> 0], [kind |-> "NaN", val |-> 0]}
    \cup {[kind |-> "num", val |-> d] : d \in Durations}

\* Names the external process may leave in its --output directory.
OutputNames ==
  { <<"v","c","_","1",".","w","a","v">>,
    <<"v","c","_","2",".","w","a","v">>,
    <<"o","u","t",".","l","o","g">> }

\* ---------------------------------------------------------- error messages
InvalidFormat == "Invalid audio file format."
InvalidParameterCombination ==
  "Semi-tone shift can only be used with singing mode."
DurationExceeded(fileName) ==
  IF fileName = "source"
    THEN "The source audio file exceeds the maximum duration of 30 seconds."
    ELSE "The target audio file exceeds the maximum duration of 30 seconds."
OutputNotFound == "Output file not found."
\* Errors raised by the runtime and the platform, named by their kind.
IOError == "mkdir failed"
DownloadError == "fetch failed"
ProbeError == "ffprobe failed"
ExecutionError == "Command failed"
ReplyError == "platform request failed"

\* ------------------------------------------------------------------- state
VARIABLES
  job,        \* per interaction: position and locals of handler and execute
  sent,       \* per interaction: the messages the platform showed the user
  log,        \* per interaction: the external calls issued, in order
  dirs,       \* the filesystem: directories under the temp root
  files,      \* the filesystem: files, as [dir, name, content]
  uuids,      \* per interaction: number of identifiers uuidv4 handed it
  rsSinging, rsUser, rsResult, rsCalls   \* a caller of determineDiffusionSteps

vars == <<job, sent, log, dirs, files, uuids,
          rsSinging, rsUser, rsResult, rsCalls>>
rsVars == <<rsSinging, rsUser, rsResult, rsCalls>>
jobVars == <<job, sent, log, dirs, files, uuids>>

InitJob ==
  [pc |-> "idle", opts |-> NoOptions, deferred |-> FALSE, replied |-> FALSE,
   tempDir |-> <<>>, response |-> "none", sourcePath |-> <<>>,
   targetPath |-> <<>>, diffusionSteps |-> Null, semiToneShift |-> 0,
   duration |-> [kind |-> "none", val |-> 0], command |-> <<>>,
   exit |-> "none", outputFile |-> <<>>, error |-> "none", rejected |-> 0]

InitJobs ==
  /\ job = [j \in Jobs |-> InitJob]
  /\ sent = [j \in Jobs |-> <<>>]
  /\ log = [j \in Jobs |-> <<>>]
  /\ dirs = {}
  /\ files = {}
  /\ uuids = [j \in Jobs |-> 0]

Init ==
  /\ InitJobs
  /\ rsSinging = FALSE /\ rsUser = Null /\ rsResult = Null /\ rsCalls = 0

\* ----------------------------------------------------------- pure functions
\* Variant: the extension is compared without its dot.
validateAudioFile_NoDot(name) ==
  EndsWith(ToLowerCase(name), <<"w", "a", "v">>)

\* validateAudioFile: TRUE when it returns, FALSE when it throws.
validateAudioFile(name) ==
  \E i \in DOMAIN VALID_AUDIO_EXTENSIONS :
    EndsWith(ToLowerCase(name), VALID_AUDIO_EXTENSIONS[i])

\* Variant: the semitone shift is defaulted to 0 whatever the user gave.
OrZero_Always(v) == 0

\* getInteger('semi_tone_shift') || 0
OrZero(v) == IF v = Null THEN 0 ELSE IF v[1] = 0 THEN 0 ELSE v[1]

\* Variant: the non-singing default is missing, the absent value passes
\* through (null, printed as 0 here).
determineDiffusionSteps_Unresolved(singing, diffusionSteps) ==
  IF singing /\ diffusionSteps = Null
    THEN DEFAULT_SINGING_DIFFUSION_STEPS
  ELSE IF diffusionSteps = Null
    THEN MinSteps - 1
  ELSE diffusionSteps[1]

\* Variant: the two defaults are exchanged.
determineDiffusionSteps_Swapped(singing, diffusionSteps) ==
  IF singing /\ diffusionSteps = Null
    THEN DEFAULT_NON_SINGING_DIFFUSION_STEPS
  ELSE IF diffusionSteps = Null
    THEN DEFAULT_SINGING_DIFFUSION_STEPS
  ELSE diffusionSteps[1]

determineDiffusionSteps(singing, diffusionSteps) ==
  IF singing /\ diffusionSteps = Null
    THEN DEFAULT_SINGING_DIFFUSION_STEPS
  ELSE IF diffusionSteps = Null
    THEN DEFAULT_NON_SINGING_DIFFUSION_STEPS
  ELSE diffusionSteps[1]

\* Variant: the ceiling is off by one second.
ExceedsMaxDuration_OffByOne(r) ==
  r.kind = "num" /\ r.val > MAX_AUDIO_DURATION + 1

\* validateAudioDuration: TRUE when the probed duration makes it throw.
\* NaN > 30 is false in JavaScript.
ExceedsMaxDuration(r) == r.kind = "num" /\ r.val > MAX_AUDIO_DURATION

Arg(flag, val) == [flag |-> flag, val |-> val]

\* Variant: the auto-pitch flag is appended in both modes.
buildConversionCommand_Both(sourcePath, targetPath, outputDir, singing, diffusionSteps, semiToneShift) ==
  << Arg("python.exe", <<>>), Arg("inference.py", <<>>),
     Arg("--source", sourcePath), Arg("--target", targetPath),
     Arg("--output", outputDir), Arg("--diffusion-steps", diffusionSteps),
     Arg("--length-adjust", "1.0"), Arg("--inference-cfg-rate", "0.7") >>
  \o (IF singing
        THEN << Arg("--f0-condition", "true"),
                Arg("--semi-tone-shift", semiToneShift) >>
        ELSE <<>>)
  \o << Arg("--auto-f0-adjust", "true") >>

buildConversionCommand(sourcePath, targetPath, outputDir, singing, diffusionSteps, semiToneShift) ==
  << Arg("python.exe", <<>>), Arg("inference.py", <<>>),
     Arg("--source", sourcePath), Arg("--target", targetPath),
     Arg("--output", outputDir), Arg("--diffusion-steps", diffusionSteps),
     Arg("--length-adjust", "1.0"), Arg("--inference-cfg-rate", "0.7") >>
  \o (IF singing
        THEN << Arg("--f0-condition", "true"),
                Arg("--semi-tone-shift", semiToneShift) >>
        ELSE << Arg("--auto-f0-adjust", "true") >>)

HasFlag(command, flag) == \E i \in DOMAIN command : command[i].flag = flag
FlagValue(command, flag) ==
  command[CHOOSE i \in DOMAIN command : command[i].flag = flag].val

\* path.join(dir, name)
PathJoin(dir, name) == [dir |-> dir, name |-> name]

\* `${prefix}_${uuidv4()}.wav`
DownloadName(prefix, n) ==
  prefix \o <<"_">> \o Uuid(n) \o <<".", "w", "a", "v">>
SourcePrefix == <<"s","o","u","r","c","e">>
TargetPrefix == <<"t","a","r","g","e","t">>
\* Variant: another prefix is looked for.
OutputPrefix_Wrong == <<"o","u","t">>
OutputPrefix == <<"v","c","_">>

\* fs.readdirSync(dir): the entry names, in an order the platform chooses.
Entries(fs, dir) == {f.name : f \in {g \in fs : g.dir = dir}}
Listings(S) ==
  {l \in [1..Cardinality(S) -> S] :
     \A a, b \in 1..Cardinality(S) : l[a] = l[b] => a = b}

\* Variant: any .wav entry is taken for the output.
IsOutputName_Wav(file) == EndsWith(file, <<".", "w", "a", "v">>)
IsOutputName(file) == StartsWith(file, OutputPrefix)

\* readdirSync(tempDir).find(...): the first match, or <<>> for undefined.
FindOutput(listing) ==
  IF \E i \in DOMAIN listing : IsOutputName(listing[i])
    THEN listing[CHOOSE i \in DOMAIN listing :
                   /\ IsOutputName(listing[i])
                   /\ \A k \in 1..(i - 1) : ~IsOutputName(listing[k])]
    ELSE <<>>

\* ------------------------------------------------------------ reply bodies
ErrorReply(message) == [content |-> <<"Error: ", message>>, files |-> <<>>]
SuccessReply(path) ==
  [content |-> <<"Voice conversion complete!">>, files |-> <<path>>]
FallbackReply ==
  [content |-> <<"There was an error while executing this command!">>,
   files |-> <<>>]

\* ------------------------------------------------------- steps of execute
\* The identifier the next uuidv4() call of interaction j returns.  Draws
\* are numbered so that no two calls, of one interaction or of two, get the
\* same number, whatever the order in which interactions call.
FreshUuid(j) == NumJobs * uuids[j] + j
Drawn(j) == uuids' = [uuids EXCEPT ![j] = @ + 1]

Called(j, calls) == log' = [log EXCEPT ![j] = @ \o calls]

\* Variant: the catch block logs the error and reports nothing.
Catch_Swallow(rec, message) ==
  [rec EXCEPT !.error = message, !.pc = "done"]

\* A throw inside the try block of execute: the catch block logs the error
\* and issues editReply(`Error: ${error.message}`).
Catch(rec, message) ==
  [rec EXCEPT !.error = message, !.pc = "editReplyError"]

\* Variant: the finally block leaves the directory in place.
CleanedDirs_NoRemove(dir) == dirs

\* Variant: the whole temp root is emptied.
CleanedFiles_All(dir) == {}

\* cleanupTempDir(dir), in the finally block of execute.
CleanedDirs(dir) == IF dir # <<>> THEN dirs \ {dir} ELSE dirs
CleanedFiles(dir) ==
  IF dir # <<>> THEN {f \in files : f.dir # dir} ELSE files

\* Variant: the workspace is created before the acknowledgment is issued.
handleInteractionCreate_WorkspaceFirst(j, InputSet) ==
  /\ job[j].pc = "idle"
  /\ \E isChatInputCommand \in BOOLEAN, commandName \in CommandNames,
        o \in InputSet :
       IF isChatInputCommand /\ commandName \in Commands
         THEN /\ job' = [job EXCEPT ![j].pc = "deferReply", ![j].opts = o,
                                    ![j].tempDir = Uuid(FreshUuid(j))]
              /\ dirs' = dirs \cup {Uuid(FreshUuid(j))}
              /\ Drawn(j)
              /\ Called(j, <<"mkdir", "deferReply">>)
         ELSE /\ job' = [job EXCEPT ![j].pc = "ignored"]
              /\ UNCHANGED <<log, dirs, uuids>>
  /\ UNCHANGED <<sent, files, rsVars>>

\* handleInteractionCreate up to the first await of execute.
handleInteractionCreate(j, InputSet) ==
  /\ job[j].pc = "idle"
  /\ \E isChatInputCommand \in BOOLEAN, commandName \in CommandNames,
        o \in InputSet :
       IF isChatInputCommand /\ commandName \in Commands
         THEN /\ job' = [job EXCEPT ![j].pc = "deferReply", ![j].opts = o]
              /\ Called(j, <<"deferReply">>)
         ELSE /\ job' = [job EXCEPT ![j].pc = "ignored"]
              /\ UNCHANGED log
  /\ UNCHANGED <<sent, dirs, files, uuids, rsVars>>

\* deferReply settles.  On success: createTempDir and the synchronous part
\* of processInteractionOptions, up to the fetch of the source attachment.
\* On failure execute rejects and handleInteractionCreate issues reply().
AfterDeferReply(j) ==
  /\ job[j].pc = "deferReply"
  /\ \E deferOk \in BOOLEAN, mkdirOk \in BOOLEAN :
       LET o == job[j].opts
           dir == Uuid(FreshUuid(j))
           acked == [job[j] EXCEPT !.deferred = TRUE]
           made == [acked EXCEPT !.tempDir = dir]
           semiToneShift == OrZero(o.semi_tone_shift)
       IN
       IF ~deferOk
         THEN /\ job' = [job EXCEPT ![j].pc = "reply",
                                    ![j].error = ReplyError,
                                    ![j].rejected = @ + 1]
              /\ Called(j, <<"reply">>)
              /\ UNCHANGED <<dirs, uuids>>
       ELSE IF ~mkdirOk
         THEN /\ job' = [job EXCEPT ![j] = Catch(acked, IOError)]
              /\ Called(j, <<"mkdir", "editReply_error">>)
              /\ Drawn(j)
              /\ UNCHANGED dirs
       ELSE
         /\ Drawn(j)
         /\ dirs' = dirs \cup {dir}
         /\ IF ~validateAudioFile(o.source) \/ ~validateAudioFile(o.target)
              THEN /\ job' = [job EXCEPT ![j] = Catch(made, InvalidFormat)]
                   /\ Called(j, <<"mkdir", "editReply_error">>)
            ELSE IF ~o.singing /\ semiToneShift # 0
              THEN /\ job' = [job EXCEPT
                                ![j] = Catch(made, InvalidParameterCombination)]
                   /\ Called(j, <<"mkdir", "editReply_error">>)
            ELSE
              /\ job' = [job EXCEPT ![j] =
                   [made EXCEPT
                      !.pc = "fetchSource",
                      !.semiToneShift = semiToneShift,
                      !.diffusionSteps =
                        <<determineDiffusionSteps(o.singing,
                                                  o.diffusion_steps)>>]]
              /\ Called(j, <<"mkdir", "fetch_source">>)
  /\ UNCHANGED <<sent, files, rsVars>>

\* Variant: a failed fetch is issued again.
AfterFetch_Retry(j) ==
  /\ job[j].pc \in {"fetchSource", "fetchTarget"}
  /\ \E outcome \in {"ok", "httpError", "networkError"} :
       IF outcome = "networkError"
         THEN /\ UNCHANGED job
              /\ Called(j, IF job[j].pc = "fetchSource"
                             THEN <<"fetch_source">> ELSE <<"fetch_target">>)
         ELSE /\ job' = [job EXCEPT
                   ![j].response = outcome,
                   ![j].pc = IF job[j].pc = "fetchSource"
                               THEN "bodySource" ELSE "bodyTarget"]
              /\ UNCHANGED log
  /\ UNCHANGED <<sent, dirs, files, uuids, rsVars>>

\* downloadFile: fetch(url) settles.  A network failure rejects; any HTTP
\* response, whatever its status, resolves and the body is awaited next.
AfterFetch(j) ==
  /\ job[j].pc \in {"fetchSource", "fetchTarget"}
  /\ \E outcome \in {"ok", "httpError", "networkError"} :
       IF outcome = "networkError"
         THEN /\ job' = [job EXCEPT ![j] = Catch(@, DownloadError)]
              /\ Called(j, <<"editReply_error">>)
         ELSE /\ job' = [job EXCEPT
                   ![j].response = outcome,
                   ![j].pc = IF job[j].pc = "fetchSource"
                               THEN "bodySource" ELSE "bodyTarget"]
              /\ UNCHANGED log
  /\ UNCHANGED <<sent, dirs, files, uuids, rsVars>>

\* downloadFile: response.arrayBuffer() settles and the body is written to
\* `${prefix}_${uuid}.wav`.  After the source the target is fetched; after
\* the target the source is probed.
AfterArrayBuffer(j) ==
  /\ job[j].pc \in {"bodySource", "bodyTarget"}
  /\ \E bodyOk \in BOOLEAN :
       LET isSource == job[j].pc = "bodySource"
           label == IF isSource THEN "source" ELSE "target"
           name == DownloadName(IF isSource THEN SourcePrefix
                                            ELSE TargetPrefix, FreshUuid(j))
           filePath == PathJoin(job[j].tempDir, name)
           content == IF job[j].response = "ok" THEN "audio"
                                                 ELSE "errorBody"
       IN
       IF ~bodyOk
         THEN /\ job' = [job EXCEPT ![j] = Catch(@, DownloadError)]
              /\ Called(j, <<"editReply_error">>)
              /\ UNCHANGED <<files, uuids>>
       ELSE IF job[j].tempDir \notin dirs
         THEN /\ job' = [job EXCEPT ![j] = Catch(@, IOError)]
              /\ Called(j, <<"editReply_error">>)
              /\ Drawn(j)
              /\ UNCHANGED files
       ELSE
         /\ Drawn(j)
         /\ files' = files \cup
              {[dir |-> job[j].tempDir, name |-> name, content |-> content]}
         /\ IF isSource
              THEN /\ job' = [job EXCEPT ![j].sourcePath = filePath,
                                         ![j].response = "none",
                                         ![j].pc = "fetchTarget"]
                   /\ Called(j, <<"write_source", "fetch_target">>)
              ELSE /\ job' = [job EXCEPT ![j].targetPath = filePath,
                                         ![j].response = "none",
                                         ![j].pc = "probeSource"]
                   /\ Called(j, <<"write_target", "probe_source">>)
  /\ UNCHANGED <<sent, dirs, rsVars>>

\* validateAudioDuration: ffprobe settles.  After the source the target is
\* probed; after the target processInteractionOptions returns, execute
\* builds the command and executeConversion starts the external process.
AfterProbe(j) ==
  /\ job[j].pc \in {"probeSource", "probeTarget"}
  /\ \E r \in ProbeResults :
       LET isSource == job[j].pc = "probeSource"
           fileName == IF isSource THEN "source" ELSE "target"
           probed == [job[j] EXCEPT !.duration = r]
       IN
       IF r.kind = "error"
         THEN /\ job' = [job EXCEPT ![j] = Catch(@, ProbeError)]
              /\ Called(j, <<"editReply_error">>)
       ELSE IF ExceedsMaxDuration(r)
         THEN /\ job' = [job EXCEPT
                           ![j] = Catch(probed, DurationExceeded(fileName))]
              /\ Called(j, <<"editReply_error">>)
       ELSE IF isSource
         THEN /\ job' = [job EXCEPT ![j] = [probed EXCEPT
                                                 !.pc = "probeTarget"]]
              /\ Called(j, <<"probe_target">>)
       ELSE
         /\ job' = [job EXCEPT
              ![j].pc = "exec",
              ![j].duration = r,
              ![j].command =
                 buildConversionCommand(
                   job[j].sourcePath, job[j].targetPath, job[j].tempDir,
                   job[j].opts.singing, job[j].diffusionSteps[1],
                   job[j].semiToneShift)]
         /\ Called(j, <<"exec">>)
  /\ UNCHANGED <<sent, dirs, files, uuids, rsVars>>

\* Variant: the exec callback resolves whatever the exit status.
executeCommandRejects_Never(exitOk) == FALSE

\* executeCommand: the exec callback rejects when it is handed an error,
\* that is when the process exited non-zero or could not be started.
executeCommandRejects(exitOk) == ~exitOk

\* Variant: the success edit is not awaited, so the finally block runs
\* while the edit is still in progress.
AfterExec_NoAwait(j) ==
  /\ job[j].pc = "exec"
  /\ \E exitOk \in BOOLEAN, outs \in SUBSET OutputNames :
       LET dir == job[j].tempDir
           written == IF dir \in dirs
                        THEN files \cup
                               {[dir |-> dir, name |-> n,
                                 content |-> "converted"] : n \in outs}
                        ELSE files
           exited == [job[j] EXCEPT
                        !.exit = IF exitOk THEN "zero" ELSE "nonzero"]
       IN
       IF executeCommandRejects(exitOk)
         THEN /\ job' = [job EXCEPT ![j] = Catch(exited, ExecutionError)]
              /\ Called(j, <<"editReply_error">>)
              /\ files' = written /\ UNCHANGED dirs
       ELSE IF dir \notin dirs
         THEN /\ job' = [job EXCEPT ![j] = Catch(exited, IOError)]
              /\ Called(j, <<"readdir", "editReply_error">>)
              /\ files' = written /\ UNCHANGED dirs
       ELSE
         \E listing \in Listings(Entries(written, dir)) :
           LET outputFile == FindOutput(listing) IN
           IF outputFile = <<>>
             THEN /\ job' = [job EXCEPT
                               ![j] = Catch(exited, OutputNotFound)]
                  /\ Called(j, <<"readdir", "editReply_error">>)
                  /\ files' = written /\ UNCHANGED dirs
             ELSE /\ job' = [job EXCEPT ![j] =
                       [exited EXCEPT !.outputFile = outputFile,
                                      !.pc = "editReplySuccess"]]
                  /\ Called(j, <<"readdir", "editReply_success", "rm">>)
                  /\ files' = {f \in written : f.dir # dir}
                  /\ dirs' = dirs \ {dir}
  /\ UNCHANGED <<sent, uuids, rsVars>>

\* executeConversion: the external process has ended, leaving `outs` in its
\* output directory.  A non-zero exit (or a failure to start) rejects;
\* otherwise the directory is listed for the first vc_ entry and the
\* success reply is issued with that file.
AfterExec(j) ==
  /\ job[j].pc = "exec"
  /\ \E exitOk \in BOOLEAN, outs \in SUBSET OutputNames :
       LET dir == job[j].tempDir
           written == IF dir \in dirs
                        THEN files \cup
                               {[dir |-> dir, name |-> n,
                                 content |-> "converted"] : n \in outs}
                        ELSE files
           exited == [job[j] EXCEPT
                        !.exit = IF exitOk THEN "zero" ELSE "nonzero"]
       IN
       /\ files' = written
       /\ IF executeCommandRejects(exitOk)
            THEN /\ job' = [job EXCEPT
                              ![j] = Catch(exited, ExecutionError)]
                 /\ Called(j, <<"editReply_error">>)
          ELSE IF dir \notin dirs
            THEN /\ job' = [job EXCEPT ![j] = Catch(exited, IOError)]
                 /\ Called(j, <<"readdir", "editReply_error">>)
          ELSE
            \E listing \in Listings(Entries(written, dir)) :
              LET outputFile == FindOutput(listing) IN
              IF outputFile = <<>>
                THEN /\ job' = [job EXCEPT
                                  ![j] = Catch(exited, OutputNotFound)]
                     /\ Called(j, <<"readdir", "editReply_error">>)
                ELSE /\ job' = [job EXCEPT ![j] =
                          [exited EXCEPT !.outputFile = outputFile,
                                         !.pc = "editReplySuccess"]]
                     /\ Called(j, <<"readdir", "editReply_success">>)
  /\ UNCHANGED <<sent, dirs, uuids, rsVars>>

\* executeConversion: the success editReply settles.  It reads the attached
\* file from its path.  On success execute leaves the try block and the
\* finally block removes the workspace; on failure the catch block runs.
AfterEditReplySuccess(j) ==
  /\ job[j].pc = "editReplySuccess"
  /\ \E editOk \in BOOLEAN :
       LET path == PathJoin(job[j].tempDir, job[j].outputFile)
           readable == \E f \in files :
                         f.dir = path.dir /\ f.name = path.name
       IN
       IF editOk /\ readable
         THEN /\ sent' = [sent EXCEPT ![j] = Append(@, SuccessReply(path))]
              /\ job' = [job EXCEPT ![j].replied = TRUE, ![j].pc = "done"]
              /\ dirs' = CleanedDirs(job[j].tempDir)
              /\ files' = CleanedFiles(job[j].tempDir)
              /\ Called(j, <<"rm">>)
         ELSE /\ job' = [job EXCEPT
                           ![j] = Catch([@ EXCEPT !.rejected = @ + 1],
                                        ReplyError)]
              /\ Called(j, <<"editReply_error">>)
              /\ UNCHANGED <<sent, dirs, files>>
  /\ UNCHANGED <<uuids, rsVars>>

\* Variant: the error edit has no .catch, so its rejection leaves execute
\* through finally and reaches the dispatcher, which issues reply().
AfterEditReplyError_Propagates(j) ==
  /\ job[j].pc = "editReplyError"
  /\ \E editOk \in BOOLEAN :
       /\ sent' = IF editOk
                    THEN [sent EXCEPT
                            ![j] = Append(@, ErrorReply(job[j].error))]
                    ELSE sent
       /\ job' = [job EXCEPT
                    ![j].replied = editOk,
                    ![j].pc = IF editOk THEN "done" ELSE "reply",
                    ![j].rejected = IF editOk THEN @ ELSE @ + 1]
       /\ Called(j, (IF job[j].tempDir # <<>> THEN <<"rm">> ELSE <<>>)
                      \o (IF editOk THEN <<>> ELSE <<"reply">>))
  /\ dirs' = CleanedDirs(job[j].tempDir)
  /\ files' = CleanedFiles(job[j].tempDir)
  /\ UNCHANGED <<uuids, rsVars>>

\* execute, catch block: editReply(`Error: ...`) settles; its own failure
\* is only logged.  The finally block then removes the workspace.
AfterEditReplyError(j) ==
  /\ job[j].pc = "editReplyError"
  /\ \E editOk \in BOOLEAN :
       /\ sent' = IF editOk
                    THEN [sent EXCEPT
                            ![j] = Append(@, ErrorReply(job[j].error))]
                    ELSE sent
       /\ job' = [job EXCEPT
                    ![j].replied = editOk, ![j].pc = "done",
                    ![j].rejected = IF editOk THEN @ ELSE @ + 1]
  /\ dirs' = CleanedDirs(job[j].tempDir)
  /\ files' = CleanedFiles(job[j].tempDir)
  /\ IF job[j].tempDir # <<>> THEN Called(j, <<"rm">>) ELSE UNCHANGED log
  /\ UNCHANGED <<uuids, rsVars>>

\* handleInteractionCreate, catch block: the fallback reply() settles; its
\* own failure is only logged.
AfterReply(j) ==
  /\ job[j].pc = "reply"
  /\ \E replyOk \in BOOLEAN :
       /\ sent' = IF replyOk THEN [sent EXCEPT ![j] = Append(@, FallbackReply)]
                             ELSE sent
       /\ job' = [job EXCEPT
                    ![j].replied = replyOk, ![j].pc = "done",
                    ![j].rejected = IF replyOk THEN @ ELSE @ + 1]
  /\ UNCHANGED <<log, dirs, files, uuids, rsVars>>

JobStep(j, InputSet) ==
  \/ handleInteractionCreate(j, InputSet)
  \/ AfterDeferReply(j)
  \/ AfterFetch(j)
  \/ AfterArrayBuffer(j)
  \/ AfterProbe(j)
  \/ AfterExec(j)
  \/ AfterEditReplySuccess(j)
  \/ AfterEditReplyError(j)
  \/ AfterReply(j)

Next == \E j \in SoloJobs : JobStep(j, Options)

Spec == Init /\ [][Next]_vars

\* Several interactions in flight at once: any delivered interaction may take
\* its next step.  The environment is narrowed to keep the interleavings
\* enumerable: two option sets (one valid, one with a bad extension), probes
\* that answer 30 seconds, a process that writes at most vc_1.wav, successful
\* HTTP responses, and at most one rejected platform call per interaction.
ConcOptions ==
  { [source |-> <<"a",".","w","a","v">>, target |-> <<"B",".","W","A","V">>,
     singing |-> TRUE, diffusion_steps |-> Null, semi_tone_shift |-> <<3>>],
    [source |-> <<"a",".","w","a","v">>, target |-> <<"c",".","m","p","3">>,
     singing |-> FALSE, diffusion_steps |-> <<42>>, semi_tone_shift |-> Null] }

ConcEnv(j) ==
  /\ job[j].pc # "ignored"
  /\ job[j].error \in {"none", ReplyError, InvalidFormat, DownloadError,
                       ExecutionError, OutputNotFound}
  /\ job[j].response # "httpError"
  /\ job[j].duration.kind \in {"none", "num"}
  /\ job[j].rejected <= 1
  /\ \A f \in files :
       f.content = "converted" => f.name = <<"v","c","_","1",".","w","a","v">>

NextConc ==
  \E j \in Jobs :
    \/ handleInteractionCreate(j, ConcOptions) /\ ConcEnv(j)'
    \/ AfterDeferReply(j) /\ ConcEnv(j)'
    \/ AfterFetch(j) /\ ConcEnv(j)'
    \/ AfterArrayBuffer(j) /\ ConcEnv(j)'
    \/ AfterProbe(j) /\ ConcEnv(j)'
    \/ AfterExec(j) /\ ConcEnv(j)'
    \/ AfterEditReplySuccess(j) /\ ConcEnv(j)'
    \/ AfterEditReplyError(j) /\ ConcEnv(j)'
    \/ AfterReply(j) /\ ConcEnv(j)'

SpecConc == Init /\ [][NextConc]_vars

\* A caller of the resolver alone: the inputs are drawn in InitResolve, over
\* the whole range the command schema admits.
ResolveSteps ==
  /\ rsCalls < MaxCalls
  /\ rsResult' = <<determineDiffusionSteps(rsSinging, rsUser)>>
  /\ rsCalls' = rsCalls + 1
  /\ UNCHANGED <<jobVars, rsSinging, rsUser>>

InitResolve ==
  /\ InitJobs
  /\ rsSinging \in BOOLEAN
  /\ rsUser \in {Null} \cup {<<n>> : n \in MinSteps..MaxSteps}
  /\ rsResult = Null
  /\ rsCalls = 0

NextResolve == ResolveSteps

SpecResolve == InitResolve /\ [][NextResolve]_vars

\* ==================================================================== claims
InLog(j, call) == \E i \in DOMAIN log[j] : log[j][i] = call
Finished(j) == job[j].pc = "done"
Workspace(j) == {f \in files : f.dir = job[j].tempDir}
OutputEntries(j) ==
  {f \in Workspace(j) : SubSeq(f.name, 1, 3) = <<"v", "c", "_">>}
WorkspaceGone(j) == job[j].tempDir \notin dirs /\ Workspace(j) = {}
\* The extension of a declared file name: from its last dot on, lower-cased.
HasWavExtension(name) ==
  /\ Len(name) >= 4
  /\ name[Len(name) - 3] = "."
  /\ name[Len(name) - 2] \in {"w", "W"}
  /\ name[Len(name) - 1] \in {"a", "A"}
  /\ name[Len(name)] \in {"v", "V"}

\* C1: once execute has finished, the workspace directory the job created
\* (and everything in it) no longer exists, whatever stage failed.
C1_WorkspaceRemoved ==
  \A j \in Jobs :
    Finished(j) => WorkspaceGone(j) /\ (job[j].tempDir # <<>> => InLog(j, "rm"))

C1_Witness ==
  \E j \in Jobs :
    /\ Finished(j) /\ job[j].tempDir # <<>>
    /\ job[j].error = ExecutionError
    /\ InLog(j, "write_source") /\ InLog(j, "write_target")

\* C2 (as claimed): every finished conversion job has shown the user exactly
\* one terminal message.
C2_ExactlyOneMessage ==
  \A j \in Jobs : Finished(j) => Len(sent[j]) = 1

\* C2 (amended): never more than one terminal message, never a success and a
\* failure message together; the message is the success reply with the
\* converted file or a text without files; a finished job has shown exactly
\* one unless the platform rejected a reply call, and shows none only when
\* the last reply call was rejected.
C2_AtMostOneMessage ==
  \A j \in Jobs :
    /\ Len(sent[j]) <= 1
    /\ \A i \in DOMAIN sent[j] :
         \/ /\ sent[j][i].content = <<"Voice conversion complete!">>
            /\ Len(sent[j][i].files) = 1
            /\ job[j].error = "none"
         \/ /\ sent[j][i].content # <<"Voice conversion complete!">>
            /\ sent[j][i].files = <<>>
            /\ job[j].error # "none"
    /\ Finished(j) =>
         /\ job[j].rejected = 0 => Len(sent[j]) = 1
         /\ Len(sent[j]) = 0 => job[j].rejected >= 1 /\ ~job[j].replied

C2_Witness ==
  \E j \in Jobs :
    /\ Finished(j) /\ job[j].rejected = 1 /\ Len(sent[j]) = 1
    /\ sent[j][1] = ErrorReply(ReplyError)
    /\ InLog(j, "editReply_success")

\* C3: a job with an attachment (source or target) whose extension is not
\* .wav, case-insensitively, never fetches or writes any attachment, and
\* once validation has run it has failed with InvalidFormat.
C3_InvalidFormatBeforeDownload ==
  \A j \in Jobs :
    (/\ job[j].pc \notin {"idle", "ignored"}
     /\ \/ ~HasWavExtension(job[j].opts.source)
        \/ ~HasWavExtension(job[j].opts.target))
    => /\ ~InLog(j, "fetch_source") /\ ~InLog(j, "fetch_target")
       /\ Workspace(j) = {}
       /\ job[j].sourcePath = <<>> /\ job[j].targetPath = <<>>
       /\ job[j].tempDir # <<>> =>
            /\ job[j].error = InvalidFormat
            /\ job[j].pc \in {"editReplyError", "done"}

C3_Witness ==
  \E j \in Jobs :
    /\ Finished(j)
    /\ HasWavExtension(job[j].opts.source)
    /\ ~HasWavExtension(job[j].opts.target)
    /\ job[j].error = InvalidFormat
    /\ sent[j] = <<ErrorReply(InvalidFormat)>>

\* C4 (as claimed): every job with singing=false and a non-zero semitone
\* shift whose validation has run has failed with
\* InvalidParameterCombination.
C4_AlwaysInvalidCombination ==
  \A j \in Jobs :
    (/\ job[j].tempDir # <<>>
     /\ ~job[j].opts.singing
     /\ job[j].opts.semi_tone_shift \notin {Null, <<0>>})
    => job[j].error = InvalidParameterCombination

\* C4 (amended): such a job always fails in validation, without a download
\* and without a command: with InvalidParameterCombination when both
\* extensions are valid, with InvalidFormat (the earlier check) otherwise.
\* No command built with singing off carries a semitone shift.
C4_InvalidCombinationAfterFormat ==
  \A j \in Jobs :
    /\ (/\ job[j].pc \notin {"idle", "ignored"}
        /\ ~job[j].opts.singing
        /\ job[j].opts.semi_tone_shift \notin {Null, <<0>>})
       => /\ job[j].command = <<>> /\ ~InLog(j, "exec")
          /\ ~InLog(j, "fetch_source")
          /\ job[j].semiToneShift = 0
          /\ job[j].tempDir # <<>> =>
               /\ job[j].pc \in {"editReplyError", "done"}
               /\ job[j].error =
                    IF /\ HasWavExtension(job[j].opts.source)
                       /\ HasWavExtension(job[j].opts.target)
                      THEN InvalidParameterCombination
                      ELSE InvalidFormat
    /\ (job[j].command # <<>> /\ ~job[j].opts.singing)
       => ~HasFlag(job[j].command, "--semi-tone-shift")

C4_Witness ==
  \E j \in Jobs :
    /\ Finished(j)
    /\ ~job[j].opts.singing /\ job[j].opts.semi_tone_shift = <<3>>
    /\ job[j].error = InvalidParameterCombination
    /\ sent[j] = <<ErrorReply(InvalidParameterCombination)>>

\* C5: when the probed duration of the source or of the target exceeds 30
\* seconds the job fails with DurationExceeded for that file, the external
\* process is never started, and the workspace is removed when the job ends.
C5_DurationExceeded ==
  \A j \in Jobs :
    (job[j].duration.kind = "num" /\ job[j].duration.val > 30)
    => /\ job[j].error =
            (IF InLog(j, "probe_target")
               THEN "The target audio file exceeds the maximum duration of 30 seconds."
               ELSE "The source audio file exceeds the maximum duration of 30 seconds.")
       /\ job[j].pc \in {"editReplyError", "done"}
       /\ ~InLog(j, "exec") /\ job[j].command = <<>>
       /\ job[j].exit = "none"
       /\ Finished(j) => WorkspaceGone(j)

C5_Witness ==
  \E j \in Jobs :
    /\ Finished(j)
    /\ job[j].duration = [kind |-> "num", val |-> 31]
    /\ InLog(j, "probe_target")
    /\ job[j].error = DurationExceeded("target")
    /\ job[j].tempDir \notin dirs

\* C6 (as claimed): after a non-zero exit (or a failure to start) of the
\* external process the finished job has shown the user the ExecutionError
\* message.
C6_UserGetsExecutionError ==
  \A j \in Jobs :
    (job[j].exit = "nonzero" /\ Finished(j))
    => sent[j] = <<ErrorReply(ExecutionError)>>

\* C6 (amended): after a non-zero exit the job fails with ExecutionError: the
\* workspace is never listed, no success reply is issued and no file is
\* attached, whatever the workspace holds; the error message is issued as
\* the reply edit and reaches the user unless the platform rejects that
\* edit; the workspace is removed when the job ends.
C6_ExecutionError ==
  \A j \in Jobs :
    job[j].exit = "nonzero"
    => /\ job[j].error = ExecutionError
       /\ job[j].pc \in {"editReplyError", "done"}
       /\ ~InLog(j, "readdir") /\ ~InLog(j, "editReply_success")
       /\ job[j].outputFile = <<>>
       /\ InLog(j, "editReply_error")
       /\ sent[j] \in {<<>>, <<ErrorReply(ExecutionError)>>}
       /\ Finished(j) =>
            /\ WorkspaceGone(j)
            /\ job[j].rejected = 0 => sent[j] = <<ErrorReply(ExecutionError)>>
            /\ sent[j] = <<>> => job[j].rejected = 1

C6_Witness ==
  \E j \in Jobs :
    /\ job[j].pc = "editReplyError"
    /\ job[j].exit = "nonzero"
    /\ Cardinality(OutputEntries(j)) = 2
    /\ job[j].error = ExecutionError

\* C7: when the external process exited 0 and the workspace holds no entry
\* whose name starts with vc_ (the downloaded source_ and target_ files are
\* there), the job fails with OutputNotFound and no success reply or file is
\* ever issued or shown.
C7_OutputNotFound ==
  \A j \in Jobs :
    /\ (job[j].exit = "zero" /\ ~Finished(j) /\ OutputEntries(j) = {})
       => /\ job[j].error = OutputNotFound
          /\ job[j].pc = "editReplyError"
          /\ job[j].outputFile = <<>>
          /\ ~InLog(j, "editReply_success")
    /\ job[j].error = OutputNotFound
       => /\ job[j].exit = "zero"
          /\ sent[j] \in {<<>>, <<ErrorReply(OutputNotFound)>>}

C7_Witness ==
  \E j \in Jobs :
    /\ job[j].pc = "editReplyError"
    /\ job[j].exit = "zero"
    /\ job[j].error = OutputNotFound
    /\ Cardinality(Workspace(j)) = 3
    /\ \E f \in Workspace(j) : f.name = job[j].sourcePath.name
    /\ \E f \in Workspace(j) : f.name = job[j].targetPath.name

\* C8 (as claimed): whenever the external process exited 0 and the number of
\* vc_ files in the workspace is not exactly one, the job is in its error
\* path and no success reply with a file has been issued.
C8_ExactlyOneOutput ==
  \A j \in Jobs :
    (/\ job[j].exit = "zero" /\ ~Finished(j)
     /\ Cardinality(OutputEntries(j)) # 1)
    => /\ job[j].pc = "editReplyError"
       /\ job[j].error # "none"
       /\ ~InLog(j, "editReply_success")

\* C8 (amended): after an exit 0, zero vc_ files is an error (OutputNotFound,
\* no file attached); with one or more the job proceeds to the success reply
\* and attaches one of them (the first the directory listing yields).
C8_ZeroIsErrorManyUsesOne ==
  \A j \in Jobs :
    (job[j].exit = "zero" /\ ~Finished(j))
    => IF OutputEntries(j) = {}
         THEN /\ job[j].error = OutputNotFound
              /\ ~InLog(j, "editReply_success")
         ELSE /\ InLog(j, "editReply_success")
              /\ \E f \in OutputEntries(j) : f.name = job[j].outputFile
              /\ job[j].error \in {"none", ReplyError}

C8_Witness ==
  \E j \in Jobs :
    /\ job[j].pc = "editReplySuccess"
    /\ job[j].exit = "zero"
    /\ Cardinality(OutputEntries(j)) = 2
    /\ job[j].outputFile = <<"v","c","_","2",".","w","a","v">>

\* C9 (as claimed): a non-success HTTP response fails the download like a
\* network failure does: no file holding the body of such a response is ever
\* written into the workspace, and a job that received one never probes a
\* file nor starts the external process.
C9_DownloadErrorOnBadResponse ==
  \A j \in Jobs :
    /\ \A f \in Workspace(j) : f.content # "errorBody"
    /\ job[j].response = "httpError"
       => ~InLog(j, "probe_source") /\ ~InLog(j, "exec")

\* C10: the diffusion-step resolver returns 60 for an absent value with
\* singing on, 25 for an absent value with singing off, and the user value
\* itself otherwise, on every call, and changes nothing else.
C10_ResolvedSteps ==
  rsCalls >= 1 =>
    /\ rsResult = IF rsUser = <<>> THEN (IF rsSinging THEN <<60>> ELSE <<25>>)
                                   ELSE rsUser
    /\ InitJobs

C10_Witness ==
  /\ rsCalls = 2 /\ rsUser = <<>> /\ rsSinging /\ rsResult = <<60>>

\* C11: every command built carries, once each, --source and --target (the
\* job's downloaded files), --output (the job's workspace),
\* --diffusion-steps with the resolved steps (25 or 60 when omitted),
\* --length-adjust 1.0 and --inference-cfg-rate 0.7, and exactly one of the
\* two flag sets: --f0-condition true with --semi-tone-shift (0 when
\* omitted) in singing mode, --auto-f0-adjust true otherwise.
Occurrences(command, flag) ==
  Cardinality({i \in DOMAIN command : command[i].flag = flag})

C11_CommandFlags ==
  \A j \in Jobs :
    job[j].command # <<>> =>
      LET c == job[j].command
          o == job[j].opts
      IN
      /\ \A f \in {"--source", "--target", "--output", "--diffusion-steps",
                   "--length-adjust", "--inference-cfg-rate"} :
           Occurrences(c, f) = 1
      /\ FlagValue(c, "--source") = job[j].sourcePath
      /\ FlagValue(c, "--target") = job[j].targetPath
      /\ FlagValue(c, "--source").dir = job[j].tempDir
      /\ FlagValue(c, "--target").dir = job[j].tempDir
      /\ FlagValue(c, "--source") # FlagValue(c, "--target")
      /\ FlagValue(c, "--output") = job[j].tempDir
      /\ job[j].tempDir # <<>>
      /\ FlagValue(c, "--diffusion-steps") =
           (IF o.diffusion_steps = <<>>
              THEN (IF o.singing THEN 60 ELSE 25)
              ELSE o.diffusion_steps[1])
      /\ FlagValue(c, "--length-adjust") = "1.0"
      /\ FlagValue(c, "--inference-cfg-rate") = "0.7"
      /\ IF o.singing
           THEN /\ Occurrences(c, "--f0-condition") = 1
                /\ FlagValue(c, "--f0-condition") = "true"
                /\ Occurrences(c, "--semi-tone-shift") = 1
                /\ FlagValue(c, "--semi-tone-shift") =
                     (IF o.semi_tone_shift = <<>>
                        THEN 0 ELSE o.semi_tone_shift[1])
                /\ Occurrences(c, "--auto-f0-adjust") = 0
           ELSE /\ Occurrences(c, "--auto-f0-adjust") = 1
                /\ FlagValue(c, "--auto-f0-adjust") = "true"
                /\ Occurrences(c, "--f0-condition") = 0
                /\ Occurrences(c, "--semi-tone-shift") = 0

C11_Witness ==
  \E j \in Jobs :
    /\ job[j].pc = "exec"
    /\ job[j].opts.singing
    /\ job[j].opts.semi_tone_shift = <<3>>
    /\ job[j].opts.diffusion_steps = <<>>
    /\ FlagValue(job[j].command, "--diffusion-steps") = 60
    /\ FlagValue(job[j].command, "--semi-tone-shift") = 3

\* C12: with several jobs in flight, distinct jobs have distinct workspaces;
\* a job's workspace, with the files it downloaded or produced, exists from
\* its creation until that job's own teardown; every path a job writes,
\* hands to the process or attaches lies in its own workspace; and no step
\* of one job adds, changes or removes anything in the workspace of another.
Isolated ==
  /\ \A j, k \in Jobs :
       (j # k /\ job[j].tempDir # <<>>) => job[j].tempDir # job[k].tempDir
  /\ \A f \in files :
       /\ f.dir \in dirs
       /\ \E j \in Jobs : job[j].tempDir = f.dir /\ ~Finished(j)
  /\ \A j \in Jobs :
       /\ (job[j].tempDir # <<>> /\ ~Finished(j)) =>
            /\ job[j].tempDir \in dirs
            /\ \A p \in {job[j].sourcePath, job[j].targetPath} :
                 p # <<>> =>
                   /\ p.dir = job[j].tempDir
                   /\ \E f \in Workspace(j) : f.name = p.name
            /\ job[j].outputFile # <<>> =>
                 \E f \in Workspace(j) : f.name = job[j].outputFile
            /\ job[j].command # <<>> =>
                 FlagValue(job[j].command, "--output") = job[j].tempDir
       /\ \A i \in DOMAIN sent[j] :
            \A n \in DOMAIN sent[j][i].files :
              sent[j][i].files[n].dir = job[j].tempDir

StepIsolation ==
  \A j, k \in Jobs :
    (j # k /\ job'[j] # job[j]) =>
      /\ job'[k] = job[k] /\ sent'[k] = sent[k] /\ log'[k] = log[k]
      /\ Workspace(k)' = Workspace(k)
      /\ (job[k].tempDir \in dirs') = (job[k].tempDir \in dirs)

C12_Isolation == [][Isolated' /\ StepIsolation]_vars

C12_Witness ==
  \E j, k \in Jobs :
    /\ j # k
    /\ job[j].pc = "editReplySuccess" /\ Cardinality(Workspace(j)) = 3
    /\ Finished(k) /\ InLog(k, "rm") /\ InLog(k, "write_target")
    /\ job[k].tempDir \notin dirs

\* C13 (as claimed): the external process is started only after every earlier
\* stage of the same job succeeded, in strict sequence: both extensions and
\* the parameter combination passed, both attachments were downloaded into
\* the workspace, and both passed the duration check, each probed after its
\* own download.
PipelineCalls ==
  <<"deferReply", "mkdir", "fetch_source", "write_source", "fetch_target",
    "write_target", "probe_source", "probe_target", "exec">>

C13_ExecAfterAllStages ==
  \A j \in Jobs :
    /\ InLog(j, "exec") =>
         /\ SubSeq(log[j], 1, Len(PipelineCalls)) = PipelineCalls
         /\ HasWavExtension(job[j].opts.source)
         /\ HasWavExtension(job[j].opts.target)
         /\ job[j].opts.singing \/ job[j].opts.semi_tone_shift \in {<<>>, <<0>>}
         /\ job[j].sourcePath # <<>> /\ job[j].targetPath # <<>>
         /\ ~(job[j].duration.kind = "num" /\ job[j].duration.val > 30)
    /\ job[j].pc \in {"probeTarget", "exec"} =>
         /\ job[j].error = "none"
         /\ job[j].duration.kind \in {"num", "NaN"}
         /\ ~(job[j].duration.kind = "num" /\ job[j].duration.val > 30)
    /\ job[j].pc = "exec" =>
         \A p \in {job[j].sourcePath, job[j].targetPath} :
           \E f \in Workspace(j) : f.name = p.name /\ f.content = "audio"

\* C14: when the pipeline fails at any stage after the acknowledgment, the
\* acknowledgment is edited, once, with a message carrying the failure's
\* description; if that edit is rejected the rejection is only logged:
\* execute ends without handing an error to the dispatcher, no further reply
\* is attempted, and the workspace teardown still runs.
CallCount(j, call) ==
  Cardinality({i \in DOMAIN log[j] : log[j][i] = call})

C14_ErrorEditThenTeardown ==
  \A j \in Jobs :
    (job[j].deferred /\ job[j].error # "none") =>
      /\ CallCount(j, "editReply_error") = 1
      /\ ~InLog(j, "reply")
      /\ job[j].pc \in {"editReplyError", "done"}
      /\ job[j].pc = "editReplyError" =>
           /\ log[j][Len(log[j])] = "editReply_error"
           /\ sent[j] = <<>>
      /\ Finished(j) =>
           /\ WorkspaceGone(j)
           /\ job[j].tempDir # <<>> =>
                SubSeq(log[j], Len(log[j]) - 1, Len(log[j]))
                  = <<"editReply_error", "rm">>
           /\ job[j].tempDir = <<>> =>
                log[j][Len(log[j])] = "editReply_error"
           /\ sent[j] = IF job[j].replied
                          THEN <<ErrorReply(job[j].error)>> ELSE <<>>
           /\ job[j].replied = (job[j].rejected =
                                  IF job[j].error = ReplyError THEN 1 ELSE 0)

C14_Witness ==
  \E j \in Jobs :
    /\ Finished(j) /\ job[j].deferred
    /\ job[j].error = DownloadError
    /\ ~job[j].replied /\ job[j].rejected = 1
    /\ sent[j] = <<>>
    /\ InLog(j, "rm") /\ ~InLog(j, "reply")

\* C15: nothing is retried: within one job every external call (the
\* acknowledgment, each fetch, each write, each probe, the external process,
\* the directory listing, each kind of reply, the teardown) is issued at
\* most once; the first failure ends the pipeline, and it is reported once,
\* by the one catch that handles it, after which only the teardown follows.
AllCalls ==
  {"deferReply", "mkdir", "fetch_source", "write_source", "fetch_target",
   "write_target", "probe_source", "probe_target", "exec", "readdir",
   "editReply_success", "editReply_error", "reply", "rm"}

C15_NoRetry ==
  \A j \in Jobs :
    /\ \A c \in AllCalls : CallCount(j, c) <= 1
    /\ \A i \in DOMAIN log[j] : log[j][i] \in AllCalls
    /\ CallCount(j, "editReply_error") + CallCount(j, "reply")
         = (IF job[j].error # "none" THEN 1 ELSE 0)
    /\ \A i \in DOMAIN log[j] :
         log[j][i] \in {"editReply_error", "reply"} =>
           \A k \in (i + 1)..Len(log[j]) : log[j][k] = "rm"
    /\ job[j].error # "none" =>
         job[j].pc \in {"editReplyError", "reply", "done"}

C15_Witness ==
  \E j \in Jobs :
    /\ Finished(j)
    /\ job[j].error = DownloadError
    /\ log[j] = <<"deferReply", "mkdir", "fetch_source", "write_source",
                  "fetch_target", "editReply_error", "rm">>

\* C16: the acknowledgment (deferReply) is the first call of a job, and until
\* it has completed nothing else has happened: no workspace, no validation,
\* no download, no process.  If it fails, none of those ever happens: the
\* job only issues the dispatcher's fallback reply.
C16_AckFirst ==
  \A j \in Jobs :
    /\ log[j] # <<>> => log[j][1] = "deferReply"
    /\ job[j].pc \notin {"idle", "ignored"} => log[j] # <<>>
    /\ job[j].pc = "deferReply" => ~job[j].deferred /\ log[j] = <<"deferReply">>
    /\ ~job[j].deferred =>
         /\ \A i \in DOMAIN log[j] : log[j][i] \in {"deferReply", "reply"}
         /\ job[j].tempDir = <<>> /\ job[j].tempDir \notin dirs
         /\ job[j].error \in {"none", ReplyError}
         /\ job[j].sourcePath = <<>> /\ job[j].targetPath = <<>>
         /\ job[j].diffusionSteps = <<>>
         /\ job[j].command = <<>> /\ job[j].exit = "none"
         /\ uuids[j] = 0
    /\ (~job[j].deferred /\ SoloJobs = {j}) => dirs = {} /\ files = {}

C16_Witness ==
  \E j \in Jobs :
    /\ Finished(j) /\ ~job[j].deferred
    /\ ~HasWavExtension(job[j].opts.source)
    /\ log[j] = <<"deferReply", "reply">>
    /\ job[j].error = ReplyError

\* C17: whenever the conversion process has been invoked, the job's
\* diffusionSteps is a concrete integer in [1,100], it is the value the
\* command line carries, and it is the user's value when one was given and
\* the default of the singing mode otherwise.
C17_StepsResolved ==
  \A j \in Jobs :
    InLog(j, "exec") =>
      /\ job[j].diffusionSteps # Null
      /\ Len(job[j].diffusionSteps) = 1
      /\ job[j].diffusionSteps[1] \in MinSteps..MaxSteps
      /\ FlagValue(job[j].command, "--diffusion-steps")
           = job[j].diffusionSteps[1]
      /\ job[j].opts.diffusion_steps # Null =>
           job[j].diffusionSteps = job[j].opts.diffusion_steps
      /\ job[j].opts.diffusion_steps = Null =>
           job[j].diffusionSteps[1] =
             IF job[j].opts.singing
               THEN DEFAULT_SINGING_DIFFUSION_STEPS
               ELSE DEFAULT_NON_SINGING_DIFFUSION_STEPS

C17_Witness ==
  \E j \in Jobs :
    /\ job[j].pc = "exec"
    /\ job[j].opts.diffusion_steps = Null /\ ~job[j].opts.singing
    /\ job[j].diffusionSteps = <<DEFAULT_NON_SINGING_DIFFUSION_STEPS>>

\* C18: on the success path the workspace is removed only after the success
\* edit has settled.  While the process or a reply edit of a job is in
\* progress its workspace exists and no removal has been issued; while the
\* success edit is in progress the attached file is there; a delivered
\* success message names that file by its workspace path, and the removal
\* is the one call that follows the edit.
C18_TeardownAfterEdit ==
  \A j \in Jobs :
    /\ (job[j].pc \in {"exec", "editReplySuccess", "editReplyError"}
          /\ job[j].tempDir # <<>>) =>
         /\ job[j].tempDir \in dirs
         /\ ~InLog(j, "rm")
    /\ job[j].pc = "editReplySuccess" =>
         /\ job[j].tempDir \in dirs
         /\ \E f \in files :
              f.dir = job[j].tempDir /\ f.name = job[j].outputFile
         /\ log[j][Len(log[j])] = "editReply_success"
    /\ InLog(j, "rm") =>
         /\ Finished(j)
         /\ CallCount(j, "rm") = 1
         /\ log[j][Len(log[j])] = "rm"
    /\ (Finished(j) /\ job[j].error = "none" /\ job[j].deferred) =>
         /\ sent[j] =
              <<SuccessReply(PathJoin(job[j].tempDir, job[j].outputFile))>>
         /\ SubSeq(log[j], Len(log[j]) - 1, Len(log[j]))
              = <<"editReply_success", "rm">>
         /\ CallCount(j, "editReply_success") = 1

C18_Witness ==
  \E j \in Jobs :
    /\ Finished(j) /\ job[j].error = "none" /\ job[j].deferred
    /\ Len(sent[j]) = 1 /\ sent[j][1].files # <<>>
    /\ WorkspaceGone(j)
    /\ log[j][Len(log[j])] = "rm"
====
